---- MODULE Spec2Model ----
(***************************************************************************)
(* Model of the two batch pipelines of Pedestrian-accidents-GER:           *)
(*   - the aggregator   (pedestrian_accident_processor.py)                 *)
(*   - the map renderer (generate_accident_map.py)                         *)
(* Text (file names, CSV cells, CSV files) is a sequence of one-character  *)
(* strings, so that substring tests, quoting and parsing are computed.     *)
(***************************************************************************)
EXTENDS Integers, Sequences, FiniteSets, TLC

VARIABLES
    pc,           \* position of the running script
    dir,          \* listing of data/input in the order the OS returns it
    fs,           \* content of the input files read so far (name -> file)
    input_files,  \* get_input_files(): the selected files
    selected_for, \* history: the target year each entry of input_files was selected for
    results,      \* history: what process_file returned, per entry of input_files
    raw,          \* history: what read_csv returned in the last process_file call
    dataframes,   \* process_all_files: the list `dataframes`
    combined_df,  \* process_all_files' return value
    csv,          \* data/output/PedestrianAccidents_2019_2023.csv ("absent" or its text)
    log,          \* the log records written so far
    retval,       \* run()'s return value
    df,           \* renderer: the DataFrame main() holds
    html,         \* data/output/hotspots_map.html written?
    exc           \* the exception that ended the script ("" if none)

vars == <<pc, dir, fs, input_files, selected_for, results, raw, dataframes,
          combined_df, csv, log, retval, df, html, exc>>

----------------------------------------------------------------------------
(* Bounds of the model *)

\* rows of one yearly source file in the aggregator run
MaxRows == 2
\* files in data/input in the aggregator run
MaxListing == 2
\* rows of one yearly source file when process_file is checked on its own
MaxFileRows == 2
\* rows of the combined dataset handed to the renderer
MaxMapRows == 2

----------------------------------------------------------------------------
(* Text helpers *)

IsPrefix(p, s) ==
    /\ Len(p) <= Len(s)
    /\ \A k \in DOMAIN p : p[k] = s[k]

\* Python's `p in s` for strings
IsSubstr(p, s) ==
    \E off \in 0..(Len(s) - Len(p)) : \A k \in DOMAIN p : p[k] = s[off + k]

IsSuffix(p, s) ==
    /\ Len(p) <= Len(s)
    /\ \A k \in DOMAIN p : p[k] = s[Len(s) - Len(p) + k]

Digits == <<"0", "1", "2", "3", "4", "5", "6", "7", "8", "9">>

\* Python's str(n) for a natural number
RECURSIVE Str(_)
Str(n) == IF n < 10 THEN <<Digits[n + 1]>> ELSE Str(n \div 10) \o <<Digits[(n % 10) + 1]>>

RECURSIVE Flatten(_)
Flatten(ss) == IF ss = <<>> THEN <<>> ELSE Head(ss) \o Flatten(Tail(ss))

RECURSIVE SeqsUpTo(_, _)
SeqsUpTo(S, n) ==
    IF n = 0 THEN {<<>>}
    ELSE LET shorter == SeqsUpTo(S, n - 1)
         IN  shorter \cup {Append(s, x) : s \in {t \in shorter : Len(t) = n - 1}, x \in S}

\* index of the first occurrence of x in s, 0 if absent
RECURSIVE IndexFrom(_, _, _)
IndexFrom(s, x, k) ==
    IF k > Len(s) THEN 0
    ELSE IF s[k] = x THEN k
    ELSE IndexFrom(s, x, k + 1)

IndexOf(s, x) == IndexFrom(s, x, 1)

Range(s) == {s[k] : k \in DOMAIN s}

----------------------------------------------------------------------------
(* DataFrames: a list of column names and a list of rows, each row a tuple  *)
(* of cells aligned with the columns.  NoneDF stands for Python's None.    *)

NoneDF == [none |-> TRUE, columns |-> <<>>, rows |-> <<>>]

DataFrame(cols, rs) == [none |-> FALSE, columns |-> cols, rows |-> rs]

\* DataFrame.empty
IsEmpty(d) == d.rows = <<>> \/ d.columns = <<>>

\* the column names (text spelled out)
cUJAHR == <<"U", "J", "A", "H", "R">>
cIstFuss == <<"I", "s", "t", "F", "u", "s", "s">>
cX == <<"X", "G", "C", "S", "W", "G", "S", "8", "4">>
cY == <<"Y", "G", "C", "S", "W", "G", "S", "8", "4">>

OutColumns == <<cUJAHR, cX, cY>>

----------------------------------------------------------------------------
(* Numbers in text: what pandas' tokenizer and to_numeric accept, reduced  *)
(* to the characters of this model: an optional sign, digits, at most one  *)
(* decimal mark, at least one digit; or "inf" with an optional sign.       *)

IsDigit(c) == IndexOf(Digits, c) # 0

DigitVal(c) == IndexOf(Digits, c) - 1

AllDigits(s) == \A k \in DOMAIN s : IsDigit(s[k])

RECURSIVE NatOf(_)
NatOf(s) == IF s = <<>> THEN 0 ELSE 10 * NatOf(SubSeq(s, 1, Len(s) - 1)) + DigitVal(s[Len(s)])

RECURSIVE Pow10(_)
Pow10(n) == IF n = 0 THEN 1 ELSE 10 * Pow10(n - 1)

tInf == <<"i", "n", "f">>
tNan == <<"n", "a", "n">>

Unsigned(s) == IF s # <<>> /\ Head(s) \in {"-", "+"} THEN Tail(s) ELSE s

IsNeg(s) == s # <<>> /\ Head(s) = "-"

\* the text s is a number when `dec` is the decimal mark
IsNumber(s, dec) ==
    LET b == Unsigned(s)
        p == IndexOf(b, dec)
        ip == IF p = 0 THEN b ELSE SubSeq(b, 1, p - 1)
        fp == IF p = 0 THEN <<>> ELSE SubSeq(b, p + 1, Len(b))
    IN  \/ b = tInf
        \/ AllDigits(ip) /\ AllDigits(fp) /\ Len(ip) + Len(fp) > 0

\* strip trailing zeros of the fraction
RECURSIVE StripZeros(_)
StripZeros(f) ==
    IF f # <<>> /\ f[Len(f)] = "0" THEN StripZeros(SubSeq(f, 1, Len(f) - 1)) ELSE f

\* the value of a number text, written canonically with "." as decimal mark:
\* equal values have equal canonical text (1 = 1.0 = "1", 1,50 = "1.5")
Canon(s, dec) ==
    LET b == Unsigned(s)
        p == IndexOf(b, dec)
        ip == IF p = 0 THEN b ELSE SubSeq(b, 1, p - 1)
        fp == StripZeros(IF p = 0 THEN <<>> ELSE SubSeq(b, p + 1, Len(b)))
        mag == Str(NatOf(ip)) \o (IF fp = <<>> THEN <<>> ELSE <<".">> \o fp)
        zero == NatOf(ip) = 0 /\ fp = <<>>
    IN  IF b = tInf THEN (IF IsNeg(s) THEN <<"-">> ELSE <<>>) \o tInf
        ELSE (IF IsNeg(s) /\ ~zero THEN <<"-">> ELSE <<>>) \o mag

\* cells of a DataFrame: a number (by canonical text), a string, or NaN
Num(s) == [t |-> "num", s |-> s]
StrCell(s) == [t |-> "str", s |-> s]
NaN == [t |-> "nan", s |-> <<>>]

\* read_csv's default na_values, reduced to the texts of this model
NAValues == {<<>>, tNan}

\* read_csv's conversion of one column: numeric when every present field is
\* a number, otherwise the fields stay strings; missing fields become NaN
ConvertColumn(texts, dec) ==
    LET numeric == \A k \in DOMAIN texts :
                       texts[k] \in NAValues \/ IsNumber(texts[k], dec)
    IN  [k \in DOMAIN texts |->
            IF texts[k] \in NAValues THEN NaN
            ELSE IF numeric THEN Num(Canon(texts[k], dec))
            ELSE StrCell(texts[k])]

\* Python's `cell == n` for a natural number n
EqualsInt(cell, n) == cell.t = "num" /\ cell.s = Str(n)

\* a source file: readable or not, a header and rows of fields (text)
File(ok, cols, rs) == [readable |-> ok, columns |-> cols, rows |-> rs]

\* pd.read_csv(file_path, delimiter=';', low_memory=False)
\* (raises when the file cannot be read or parsed)
read_csv(file) ==
    LET n == Len(file.rows)
        col == [j \in DOMAIN file.columns |->
                   ConvertColumn([k \in 1..n |-> file.rows[k][j]], ".")]
    IN  DataFrame(file.columns,
                  [k \in 1..n |-> [j \in DOMAIN file.columns |-> col[j][k]]])

----------------------------------------------------------------------------
(* The aggregator: AccidentDataProcessor *)

FirstYear == 2019
StopYear == 2024

\* self.years_to_process = list(range(2019, 2024))
years_to_process == [k \in 1..(StopYear - FirstYear) |-> FirstYear + k - 1]

GlobPrefix == <<"U", "n", "f", "a", "l", "l", "o", "r", "t", "e">>
GlobSuffix == <<"_", "L", "i", "n", "R", "e", "f", ".", "c", "s", "v">>

\* self.input_dir.glob("Unfallorte*_LinRef.csv"), in listing order
Glob(listing) ==
    SelectSeq(listing, LAMBDA f : /\ Len(f) >= Len(GlobPrefix) + Len(GlobSuffix)
                                  /\ IsPrefix(GlobPrefix, f)
                                  /\ IsSuffix(GlobSuffix, f))

\* [f for f in all_files if str(year) in f.name]
matching_files(all_files, year) ==
    SelectSeq(all_files, LAMBDA f : IsSubstr(Str(year), f))

\* the loop of get_input_files over years_to_process[k..]: the entries
\* appended to year_files, each with the year it was selected for, and the
\* years warned about
RECURSIVE SelectFrom(_, _)
SelectFrom(all_files, k) ==
    IF k > Len(years_to_process) THEN <<>>
    ELSE LET year == years_to_process[k]
             m == matching_files(all_files, year)
         IN  (IF m # <<>>
              THEN <<[year |-> year, found |-> TRUE, file |-> m[1]]>>
              ELSE <<[year |-> year, found |-> FALSE, file |-> <<>>]>>)
             \o SelectFrom(all_files, k + 1)

\* get_input_files(): year_files
get_input_files(listing) ==
    LET sel == SelectSeq(SelectFrom(Glob(listing), 1), LAMBDA e : e.found)
    IN  [k \in DOMAIN sel |-> sel[k].file]

\* the target year of each entry of year_files
TargetYears(listing) ==
    LET sel == SelectSeq(SelectFrom(Glob(listing), 1), LAMBDA e : e.found)
    IN  [k \in DOMAIN sel |-> sel[k].year]

\* the warnings get_input_files logs
MissingYearWarnings(listing) ==
    LET mis == SelectSeq(SelectFrom(Glob(listing), 1), LAMBDA e : ~e.found)
    IN  [k \in DOMAIN mis |-> [level |-> "WARNING", what |-> "no file for year",
                               year |-> mis[k].year]]

\* faulty variant: the year search without its break, so the last match wins
RECURSIVE YearFromLast(_, _)
YearFromLast(name, k) ==
    IF k < 1 THEN 0
    ELSE IF IsSubstr(Str(years_to_process[k]), name) THEN years_to_process[k]
    ELSE YearFromLast(name, k - 1)

YearOf_last(name) == YearFromLast(name, Len(years_to_process))

\* process_file, lines 80-84: the first year of years_to_process whose text
\* occurs in the file name; 0 stands for None
RECURSIVE YearFrom(_, _)
YearFrom(name, k) ==
    IF k > Len(years_to_process) THEN 0
    ELSE IF IsSubstr(Str(years_to_process[k]), name) THEN years_to_process[k]
    ELSE YearFrom(name, k + 1)

YearOf(name) == YearFrom(name, 1)

\* faulty variant: the filter written as df['IstFuss'] != 0
PedestrianRows_nonzero(d) ==
    LET j == IndexOf(d.columns, cIstFuss)
    IN  SelectSeq(d.rows, LAMBDA r : ~EqualsInt(r[j], 0))

\* df[df['IstFuss'] == 1]
PedestrianRows(d) ==
    LET j == IndexOf(d.columns, cIstFuss)
    IN  SelectSeq(d.rows, LAMBDA r : EqualsInt(r[j], 1))

\* rows[['UJAHR', 'XGCSWGS84', 'YGCSWGS84']]
Project(d, rs) ==
    [k \in DOMAIN rs |->
        [c \in DOMAIN OutColumns |-> rs[k][IndexOf(d.columns, OutColumns[c])]]]

\* how a call of process_file ends: by return or by an exception, with the
\* year determined, what read_csv returned and the records logged
Returned(v, y, rd, lg) ==
    [raised |-> FALSE, value |-> v, year |-> y, read |-> rd, log |-> lg]
Raised(y, rd, lg) ==
    [raised |-> TRUE, value |-> NoneDF, year |-> y, read |-> rd, log |-> lg]

\* the body of process_file's try block (lines 79-104)
process_file_try(name, file) ==
    LET year == YearOf(name)
        info == [level |-> "INFO", what |-> "processing", year |-> year]
        d == read_csv(file)
    IN  IF year = 0
        THEN Returned(NoneDF, 0, NoneDF,
                      <<[level |-> "ERROR", what |-> "no year", year |-> 0]>>)
        ELSE IF ~file.readable THEN Raised(year, NoneDF, <<info>>)
        ELSE IF IndexOf(d.columns, cIstFuss) = 0 THEN Raised(year, d, <<info>>)
        ELSE IF \E c \in DOMAIN OutColumns : IndexOf(d.columns, OutColumns[c]) = 0
             THEN Raised(year, d, <<info>>)
        ELSE Returned(DataFrame(OutColumns, Project(d, PedestrianRows(d))), year, d,
                      <<info, [level |-> "INFO", what |-> "found", year |-> year]>>)

\* faulty variant: process_file without its except handler
process_file_nocatch(name, file) == process_file_try(name, file)

\* process_file with its `except Exception` handler (lines 106-108)
process_file(name, file) ==
    LET t == process_file_try(name, file)
    IN  IF t.raised
        THEN Returned(NoneDF, t.year, t.read,
                      t.log \o <<[level |-> "ERROR", what |-> "error processing file",
                                  year |-> t.year]>>)
        ELSE t

\* faulty variant: concat followed by drop_duplicates()
RECURSIVE Dedup(_)
Dedup(rs) ==
    IF rs = <<>> THEN <<>>
    ELSE LET init == Dedup(SubSeq(rs, 1, Len(rs) - 1))
         IN  IF rs[Len(rs)] \in Range(init) THEN init ELSE Append(init, rs[Len(rs)])

concat_dedup(dfs) ==
    DataFrame(dfs[1].columns, Dedup(Flatten([k \in DOMAIN dfs |-> dfs[k].rows])))

\* pd.concat(dataframes, ignore_index=True) of frames with equal columns
concat(dfs) == DataFrame(dfs[1].columns, Flatten([k \in DOMAIN dfs |-> dfs[k].rows]))

\* faulty variant: only the first frame is returned
Combine_first(dfs) ==
    IF dfs # <<>> THEN dfs[1] ELSE DataFrame(OutColumns, <<>>)

\* faulty variant: the empty result built without its columns
Combine_unshaped(dfs) ==
    IF dfs # <<>> THEN concat(dfs) ELSE DataFrame(<<>>, <<>>)

\* lines 128-134 of process_all_files
Combine(dfs) ==
    IF dfs # <<>> THEN concat(dfs) ELSE DataFrame(OutColumns, <<>>)

----------------------------------------------------------------------------
(* Writing the combined CSV: save_output *)

\* the text to_csv writes for a cell (na_rep is the empty text).  A number is
\* written by its canonical text; pandas adds ".0" to a whole number of a
\* float column, which changes no field boundary and no value.
CellText(cell) == cell.s

RECURSIVE DoubleQuotes(_)
DoubleQuotes(s) ==
    IF s = <<>> THEN <<>>
    ELSE (IF Head(s) = "\"" THEN <<"\"", "\"">> ELSE <<Head(s)>>) \o DoubleQuotes(Tail(s))

\* faulty variant: fields written without quoting
WriteField_unquoted(s) == s

\* csv.QUOTE_MINIMAL: a field holding the delimiter, the quote character or a
\* line break is written between quotes, its quotes doubled
WriteField(s) ==
    IF \E k \in DOMAIN s : s[k] \in {",", "\"", "\n", "\r"}
    THEN <<"\"">> \o DoubleQuotes(s) \o <<"\"">>
    ELSE s

RECURSIVE JoinFields(_)
JoinFields(fields) ==
    IF fields = <<>> THEN <<>>
    ELSE IF Len(fields) = 1 THEN WriteField(fields[1])
    ELSE WriteField(fields[1]) \o <<",">> \o JoinFields(Tail(fields))

WriteLine(fields) == JoinFields(fields) \o <<"\n">>

\* df.to_csv(output_path, index=False): the header line, then one line per row
to_csv(d) ==
    WriteLine(d.columns)
    \o Flatten([k \in DOMAIN d.rows |->
                   WriteLine([j \in DOMAIN d.rows[k] |-> CellText(d.rows[k][j])])])

----------------------------------------------------------------------------
(* Reading it back: load_data *)

Whitespace == {" ", "\n", "\r", "\t"}

\* str.strip()
RECURSIVE LStrip(_)
LStrip(s) == IF s # <<>> /\ Head(s) \in Whitespace THEN LStrip(Tail(s)) ELSE s

RECURSIVE RStrip(_)
RStrip(s) ==
    IF s # <<>> /\ s[Len(s)] \in Whitespace THEN RStrip(SubSeq(s, 1, Len(s) - 1)) ELSE s

Strip(s) == LStrip(RStrip(s))

\* f.readline(): the text up to and including the first line break
ReadLine(text) ==
    LET p == IndexOf(text, "\n")
    IN  IF p = 0 THEN text ELSE SubSeq(text, 1, p)

\* str.split(',')
RECURSIVE Split(_, _)
Split(s, sep) ==
    LET p == IndexOf(s, sep)
    IN  IF p = 0 THEN <<s>>
        ELSE <<SubSeq(s, 1, p - 1)>> \o Split(SubSeq(s, p + 1, Len(s)), sep)

\* lines 13-18: the column names parsed from the first line
ParseHeader(text) ==
    LET line == Strip(ReadLine(text))
        bare == IF line # <<>> /\ Head(line) = "'" /\ line[Len(line)] = "'"
                THEN SubSeq(line, 2, Len(line) - 1)
                ELSE line
        cols == Split(bare, ",")
    IN  [k \in DOMAIN cols |-> Strip(cols[k])]

\* pandas' tokenizer with sep=',' and quotechar='"': the records of the text,
\* each a list of fields.  st is the tokenizer state, f the field and rec the
\* record being built, out the finished records; blank lines are skipped.
RECURSIVE Tokens(_, _, _, _, _, _)
Tokens(text, k, st, f, rec, out) ==
    IF k > Len(text)
    THEN IF st = "start_record" THEN out ELSE Append(out, Append(rec, f))
    ELSE LET c == text[k]
         IN  CASE st = "start_record" /\ c = "\n" ->
                      Tokens(text, k + 1, "start_record", <<>>, <<>>, out)
               [] st \in {"start_record", "start_field"} /\ c = "\"" ->
                      Tokens(text, k + 1, "in_quoted", <<>>, rec, out)
               [] st = "in_quoted" /\ c = "\"" ->
                      Tokens(text, k + 1, "quote_in_quoted", f, rec, out)
               [] st = "in_quoted" /\ c # "\"" ->
                      Tokens(text, k + 1, "in_quoted", Append(f, c), rec, out)
               [] st = "quote_in_quoted" /\ c = "\"" ->
                      Tokens(text, k + 1, "in_quoted", Append(f, c), rec, out)
               [] st # "in_quoted" /\ c = "," ->
                      Tokens(text, k + 1, "start_field", <<>>, Append(rec, f), out)
               [] st \notin {"start_record", "in_quoted"} /\ c = "\n" ->
                      Tokens(text, k + 1, "start_record", <<>>, <<>>,
                             Append(out, Append(rec, f)))
               [] OTHER ->
                      Tokens(text, k + 1, "in_field", Append(f, c), rec, out)

Tokenize(text) == Tokens(text, 1, "start_record", <<>>, <<>>, <<>>)

\* skiprows=1: the records after the first line
DataRecords(text) ==
    LET first == ReadLine(text)
    IN  Tokenize(SubSeq(text, Len(first) + 1, Len(text)))

\* pd.read_csv(filepath, sep=',', decimal=',', skiprows=1, names=column_names,
\* quotechar='"'): with more fields on the first record than names, the
\* leading fields become the index; a later record with more fields than the
\* first raises ParserError; a shorter record is padded with NaN
read_csv_names(text, names) ==
    LET recs == DataRecords(text)
        n == Len(names)
        width == IF recs = <<>> THEN n
                 ELSE IF Len(recs[1]) > n THEN Len(recs[1]) ELSE n
        lead == width - n
        field(r, j) == IF lead + j <= Len(r) THEN r[lead + j] ELSE <<>>
        col == [j \in 1..n |->
                   ConvertColumn([k \in DOMAIN recs |-> field(recs[k], j)], ",")]
    IN  IF \E k \in DOMAIN recs : Len(recs[k]) > width
        THEN [raised |-> TRUE, value |-> NoneDF]
        ELSE [raised |-> FALSE,
              value |-> DataFrame(names,
                           [k \in DOMAIN recs |-> [j \in 1..n |-> col[j][k]]])]

\* load_data(filepath)
load_data(text) == read_csv_names(text, ParseHeader(text))

----------------------------------------------------------------------------
(* The renderer: process_data, create_heatmap *)

cLongitude == <<"L", "o", "n", "g", "i", "t", "u", "d", "e">>
cLatitude == <<"L", "a", "t", "i", "t", "u", "d", "e">>

\* Series.astype(str) of one cell
AsStr(cell) == IF cell.t = "nan" THEN tNan ELSE cell.s

\* Series.str.replace(',', '.')
Replace(s, a, b) == [k \in DOMAIN s |-> IF s[k] = a THEN b ELSE s[k]]

\* pd.to_numeric(..., errors='coerce') of one string
to_numeric(s) == IF IsNumber(s, ".") THEN Num(Canon(s, ".")) ELSE NaN

\* lines 47-48 for one cell
Coerce(cell) == to_numeric(Replace(AsStr(cell), ",", "."))

\* lines 45-48: both coordinate columns converted, the others left alone
CoerceCoordinates(d) ==
    LET jx == IndexOf(d.columns, cX)
        jy == IndexOf(d.columns, cY)
    IN  [k \in DOMAIN d.rows |->
            [j \in DOMAIN d.rows[k] |->
                IF j \in {jx, jy} THEN Coerce(d.rows[k][j]) ELSE d.rows[k][j]]]

\* faulty variant: dropna(subset=['XGCSWGS84'])
DropNa_longitude(d, rs) ==
    LET jx == IndexOf(d.columns, cX)
    IN  SelectSeq(rs, LAMBDA r : r[jx].t # "nan")

\* df.dropna(subset=['XGCSWGS84', 'YGCSWGS84'])
DropNa(d, rs) ==
    LET jx == IndexOf(d.columns, cX)
        jy == IndexOf(d.columns, cY)
    IN  SelectSeq(rs, LAMBDA r : r[jx].t # "nan" /\ r[jy].t # "nan")

\* df.rename(columns={'XGCSWGS84': 'Longitude', 'YGCSWGS84': 'Latitude'})
Rename(cols) ==
    [k \in DOMAIN cols |-> IF cols[k] = cX THEN cLongitude
                           ELSE IF cols[k] = cY THEN cLatitude
                           ELSE cols[k]]

\* process_data(df); raises KeyError when a coordinate column is missing
process_data(d) ==
    IF IndexOf(d.columns, cX) = 0 \/ IndexOf(d.columns, cY) = 0
    THEN [raised |-> TRUE, value |-> NoneDF]
    ELSE [raised |-> FALSE,
          value |-> DataFrame(Rename(d.columns), DropNa(d, CoerceCoordinates(d)))]

\* number of digits after the decimal mark of a canonical number text
Decimals(s) == LET p == IndexOf(s, ".") IN IF p = 0 THEN 0 ELSE Len(s) - p

\* a canonical finite number text in units of 10^-dd
Scaled(s, dd) ==
    LET b == Unsigned(s)
        p == IndexOf(b, ".")
        ip == IF p = 0 THEN b ELSE SubSeq(b, 1, p - 1)
        fp == IF p = 0 THEN <<>> ELSE SubSeq(b, p + 1, Len(b))
        mag == NatOf(ip \o fp) * Pow10(dd - Len(fp))
    IN  IF IsNeg(s) THEN 0 - mag ELSE mag

RECURSIVE Sum(_)
Sum(xs) == IF xs = <<>> THEN 0 ELSE Head(xs) + Sum(Tail(xs))

RECURSIVE MaxOf(_)
MaxOf(xs) ==
    IF xs = <<>> THEN 0
    ELSE LET m == MaxOf(Tail(xs)) IN IF Head(xs) > m THEN Head(xs) ELSE m

\* Series.mean() of a column of numbers: NaN for no value and for inf - inf,
\* otherwise inf, -inf or the exact quotient sum / n in units of 10^-scale
Mean(cells) ==
    LET texts == [k \in DOMAIN cells |-> cells[k].s]
        pinf == \E k \in DOMAIN texts : texts[k] = tInf
        ninf == \E k \in DOMAIN texts : texts[k] = <<"-">> \o tInf
        dd == MaxOf([k \in DOMAIN texts |-> Decimals(texts[k])])
    IN  IF cells = <<>> \/ (pinf /\ ninf)
        THEN [kind |-> "nan", sum |-> 0, n |-> 0, scale |-> 0]
        ELSE IF pinf THEN [kind |-> "inf", sum |-> 0, n |-> 0, scale |-> 0]
        ELSE IF ninf THEN [kind |-> "-inf", sum |-> 0, n |-> 0, scale |-> 0]
        ELSE [kind |-> "num", sum |-> Sum([k \in DOMAIN texts |-> Scaled(texts[k], dd)]),
              n |-> Len(cells), scale |-> dd]

Column(d, name) ==
    LET j == IndexOf(d.columns, name) IN [k \in DOMAIN d.rows |-> d.rows[k][j]]

\* faulty variant: create_heatmap without the NaN check of lines 71-72
create_heatmap_unchecked(d) ==
    [raised |-> FALSE,
     location |-> <<Mean(Column(d, cLatitude)), Mean(Column(d, cLongitude))>>,
     heat_data |-> [k \in DOMAIN d.rows |->
                       <<Column(d, cLatitude)[k], Column(d, cLongitude)[k]>>]]

\* create_heatmap(df, output_html): raises ValueError for an undefined
\* centre, otherwise the map that is saved
create_heatmap(d) ==
    LET lat_mean == Mean(Column(d, cLatitude))
        lon_mean == Mean(Column(d, cLongitude))
    IN  IF lat_mean.kind = "nan" \/ lon_mean.kind = "nan"
        THEN [raised |-> TRUE, location |-> <<lat_mean, lon_mean>>, heat_data |-> <<>>]
        ELSE [raised |-> FALSE, location |-> <<lat_mean, lon_mean>>,
              heat_data |-> [k \in DOMAIN d.rows |->
                                <<Column(d, cLatitude)[k], Column(d, cLongitude)[k]>>]]

\* faulty variant: main without the df.empty check
main_validate_off(d) == ""

\* lines 90-91 of main: the message of the ValueError raised, "" for none
main_validate(d) == IF IsEmpty(d) THEN "ValueError: No valid data rows" ELSE ""

----------------------------------------------------------------------------
(* Inputs *)

T2019 == <<"2", "0", "1", "9">>
T52c5 == <<"5", "2", ",", "5">>
T13c4 == <<"1", "3", ",", "4">>
T9d5 == <<"9", ".", "5">>

FileName(mid) == GlobPrefix \o mid \o GlobSuffix

\* Unfallorte2019_LinRef.csv
n2019 == FileName(T2019)
\* Unfallorte2019_2020_LinRef.csv: names two target years
n1920 == FileName(T2019 \o <<"_", "2", "0", "2", "0">>)
\* Unfallorte2023_LinRef.csv
n2023 == FileName(<<"2", "0", "2", "3">>)
\* Unfallorte2018_LinRef.csv: matches the pattern, names no target year
n2018 == FileName(<<"2", "0", "1", "8">>)
\* Unfallorte2021.csv: names a target year, does not match the pattern
nOther == GlobPrefix \o <<"2", "0", "2", "1", ".", "c", "s", "v">>

Names == {n2019, n1920, n2023, n2018, nOther}

Distinct(s) == \A a, b \in DOMAIN s : a # b => s[a] # s[b]

Listings == {l \in SeqsUpTo(Names, MaxListing) : Distinct(l)}

\* the header of a yearly source file, and headers lacking a needed column
Header == <<cUJAHR, cIstFuss, cX, cY>>
HeaderSwapped == <<cY, cIstFuss, cUJAHR, cX>>
HeaderNoFlag == <<cUJAHR, cX, cY>>
HeaderNoY == <<cUJAHR, cIstFuss, cX>>

\* the fields a column of a source file may hold
FieldTexts(col, flags, xs) ==
    IF col = cIstFuss THEN flags
    ELSE IF col = cX THEN xs
    ELSE IF col = cY THEN {T52c5}
    ELSE {T2019}

\* every row under a header
RECURSIVE RowsUnder(_, _, _)
RowsUnder(header, flags, xs) ==
    IF header = <<>> THEN {<<>>}
    ELSE {<<f>> \o r : f \in FieldTexts(Head(header), flags, xs),
                       r \in RowsUnder(Tail(header), flags, xs)}

FilesUnder(header, flags, xs, n) ==
    {File(TRUE, header, rs) : rs \in SeqsUpTo(RowsUnder(header, flags, xs), n)}

Unreadable == File(FALSE, <<>>, <<>>)

\* the files of an aggregator run: pedestrian flag 0 or 1
RunFlags == {<<"0">>, <<"1">>}
RunFiles ==
    {Unreadable, File(TRUE, HeaderNoFlag, <<>>)}
    \cup FilesUnder(Header, {<<"1">>}, {T13c4, T9d5}, MaxRows)
    \cup FilesUnder(Header, RunFlags, {T13c4}, MaxRows)

\* the files process_file is checked on: any flag text, any header
FlagTexts == {<<"0">>, <<"1">>, <<"2">>, <<>>, <<"x">>, <<"1", ".", "0">>}
AnyFiles ==
    {Unreadable}
    \cup UNION {FilesUnder(h, FlagTexts, {T13c4, T9d5}, MaxFileRows) :
                   h \in {Header, HeaderSwapped, HeaderNoFlag, HeaderNoY}}

\* the cells of a combined dataset
tSpecial == <<"\"", "\n", ",">>
XCells == {StrCell(T13c4), Num(T9d5), NaN, StrCell(<<"x">>), StrCell(tSpecial),
           Num(tInf), Num(<<"-">> \o tInf)}
YCells == {StrCell(T52c5), NaN, Num(tInf), Num(<<"-">> \o tInf)}

\* the datasets process_all_files can return
MapFrames ==
    {DataFrame(OutColumns, rs) :
        rs \in SeqsUpTo({<<Num(T2019), x, y>> : x \in XCells, y \in YCells}, MaxMapRows)}

OutputPath == "data/output/PedestrianAccidents_2019_2023.csv"

Absent == <<"absent">>

----------------------------------------------------------------------------
(* The aggregator run: AccidentDataProcessor().run() *)

Idle ==
    /\ fs = <<>>
    /\ input_files = <<>>
    /\ selected_for = <<>>
    /\ results = <<>>
    /\ raw = NoneDF
    /\ dataframes = <<>>
    /\ log = <<>>
    /\ retval = ""
    /\ df = NoneDF
    /\ html = "none"
    /\ exc = ""

Init ==
    /\ pc = "run"
    /\ dir \in Listings
    /\ combined_df = NoneDF
    /\ csv = Absent
    /\ Idle

\* run() up to the loop of process_all_files: get_input_files()
GetInputFiles ==
    /\ pc = "run"
    /\ input_files' = get_input_files(dir)
    /\ selected_for' = TargetYears(dir)
    /\ log' = log \o MissingYearWarnings(dir)
    /\ pc' = "loop"
    /\ UNCHANGED <<dir, fs, results, raw, dataframes, combined_df, csv, retval,
                   df, html, exc>>

\* one iteration of the loop of process_all_files (lines 122-125) on the
\* file `name`, whose content is `file`
Iteration(name, file) ==
    \E r \in {process_file(name, file)} :
        /\ fs' = (IF name \in DOMAIN fs THEN fs ELSE fs @@ (name :> file))
        /\ raw' = r.read
        /\ log' = log \o r.log
        /\ results' = Append(results, [value |-> r.value, year |-> r.year])
        /\ IF r.raised   \* an exception leaving process_file ends run()
           THEN /\ pc' = "crashed"
                /\ exc' = "Exception"
                /\ UNCHANGED dataframes
           ELSE /\ dataframes' = (IF ~r.value.none /\ ~IsEmpty(r.value)
                                  THEN Append(dataframes, r.value)
                                  ELSE dataframes)
                /\ UNCHANGED <<pc, exc>>

ProcessNextFile ==
    /\ pc = "loop"
    /\ Len(results) < Len(input_files)
    /\ LET name == input_files[Len(results) + 1]
       IN  IF name \in DOMAIN fs
           THEN Iteration(name, fs[name])
           ELSE \E file \in RunFiles : Iteration(name, file)
    /\ UNCHANGED <<dir, input_files, selected_for, combined_df, csv, retval, df, html>>

\* the end of process_all_files (lines 128-134)
CombineFrames ==
    /\ pc = "loop"
    /\ Len(results) = Len(input_files)
    /\ combined_df' = Combine(dataframes)
    /\ log' = Append(log, IF dataframes # <<>>
                          THEN [level |-> "INFO", what |-> "combined", year |-> 0]
                          ELSE [level |-> "WARNING", what |-> "no valid data", year |-> 0])
    /\ pc' = "save"
    /\ UNCHANGED <<dir, fs, input_files, selected_for, results, raw, dataframes, csv,
                   retval, df, html, exc>>

\* save_output(combined_df) and the return of run()
SaveOutput ==
    /\ pc = "save"
    /\ csv' = to_csv(combined_df)
    /\ log' = Append(log, [level |-> "INFO", what |-> "saved", year |-> 0])
    /\ retval' = OutputPath
    /\ pc' = "done"
    /\ UNCHANGED <<dir, fs, input_files, selected_for, results, raw, dataframes,
                   combined_df, df, html, exc>>

Next == GetInputFiles \/ ProcessNextFile \/ CombineFrames \/ SaveOutput

Spec == Init /\ [][Next]_vars

----------------------------------------------------------------------------
(* process_file on its own: one selected file of any content *)

InitFile ==
    /\ pc = "loop"
    /\ \E name \in {n2019, n1920, n2023} :
          /\ dir = <<name>>
          /\ input_files = get_input_files(<<name>>)
          /\ selected_for = TargetYears(<<name>>)
    /\ combined_df = NoneDF
    /\ csv = Absent
    /\ fs = <<>>
    /\ results = <<>>
    /\ raw = NoneDF
    /\ dataframes = <<>>
    /\ log = <<>>
    /\ retval = ""
    /\ df = NoneDF
    /\ html = "none"
    /\ exc = ""

ProcessAnyFile ==
    /\ pc = "loop"
    /\ results = <<>>
    /\ \E file \in AnyFiles : Iteration(input_files[1], file)
    /\ UNCHANGED <<dir, input_files, selected_for, combined_df, csv, retval, df, html>>

NextFile == ProcessAnyFile

SpecFile == InitFile /\ [][NextFile]_vars

----------------------------------------------------------------------------
(* The renderer: save_output of a combined dataset, then main() *)

InitMap ==
    /\ pc \in {"save", "main"}
    /\ dir = <<>>
    /\ combined_df \in MapFrames
    /\ csv = Absent
    /\ Idle

\* main() starts once the aggregator has finished
StartMain ==
    /\ pc = "done"
    /\ pc' = "main"
    /\ UNCHANGED <<dir, fs, input_files, selected_for, results, raw, dataframes,
                   combined_df, csv, log, retval, df, html, exc>>

\* lines 84-85: the combined CSV does not exist
MainMissing ==
    /\ pc = "main"
    /\ csv = Absent
    /\ exc' = "FileNotFoundError"
    /\ pc' = "failed"
    /\ UNCHANGED <<dir, fs, input_files, selected_for, results, raw, dataframes,
                   combined_df, csv, log, retval, df, html>>

\* line 87: df = load_data(csv_filepath)
MainLoad ==
    /\ pc = "main"
    /\ csv # Absent
    /\ \E r \in {load_data(csv)} :
           IF r.raised
           THEN /\ exc' = "ParserError"
                /\ pc' = "failed"
                /\ UNCHANGED <<df, raw>>
           ELSE /\ df' = r.value
                /\ raw' = r.value
                /\ pc' = "loaded"
                /\ UNCHANGED exc
    /\ UNCHANGED <<dir, fs, input_files, selected_for, results, dataframes,
                   combined_df, csv, log, retval, html>>

\* line 88: df = process_data(df)
MainProcess ==
    /\ pc = "loaded"
    /\ \E r \in {process_data(df)} :
           IF r.raised
           THEN /\ exc' = "KeyError"
                /\ pc' = "failed"
                /\ UNCHANGED df
           ELSE /\ df' = r.value
                /\ pc' = "processed"
                /\ UNCHANGED exc
    /\ UNCHANGED <<dir, fs, input_files, selected_for, results, raw, dataframes,
                   combined_df, csv, log, retval, html>>

\* lines 90-91: if df.empty: raise ValueError
MainValidate ==
    /\ pc = "processed"
    /\ exc' = main_validate(df)
    /\ pc' = (IF exc' # "" THEN "failed" ELSE "heatmap")
    /\ UNCHANGED <<dir, fs, input_files, selected_for, results, raw, dataframes,
                   combined_df, csv, log, retval, df, html>>

\* lines 93-94: create_heatmap(df, output_html)
MainHeatmap ==
    /\ pc = "heatmap"
    /\ \E m \in {create_heatmap(df)} :
           IF m.raised
           THEN /\ exc' = "ValueError: The computed map center contains NaNs"
                /\ pc' = "failed"
                /\ UNCHANGED html
           ELSE /\ html' = "saved"
                /\ pc' = "main_done"
                /\ UNCHANGED exc
    /\ UNCHANGED <<dir, fs, input_files, selected_for, results, raw, dataframes,
                   combined_df, csv, log, retval, df>>

NextMap ==
    \/ SaveOutput
    \/ StartMain
    \/ MainMissing
    \/ MainLoad
    \/ MainProcess
    \/ MainValidate
    \/ MainHeatmap

SpecMap == InitMap /\ [][NextMap]_vars

----------------------------------------------------------------------------
(* Properties *)

\* position of column `name` in a frame
Col(d, name) == CHOOSE j \in DOMAIN d.columns : d.columns[j] = name

\* the index in `keep` (a set of row indices) of row k, counted in row order
Rank(keep, k) == Cardinality({j \in keep : j <= k})

\* `out` is exactly the rows of `rows` whose index is in `keep`, in their
\* order, each mapped by Img
IsSelection(out, rows, keep, Img(_)) ==
    /\ Len(out) = Cardinality(keep)
    /\ \A k \in keep : out[Rank(keep, k)] = Img(rows[k])

HasColumns(d, names) == \A c \in names : \E j \in DOMAIN d.columns : d.columns[j] = c

\* the last call of process_file read a file that parsed and has the
\* pedestrian flag and the three output columns
ParsedFile == ~raw.none /\ HasColumns(raw, {cIstFuss, cUJAHR, cX, cY})

\* C1: for a yearly source file that parses, process_file returns exactly the
\* rows whose IstFuss value equals 1 (no row with another flag value, every
\* flagged row, in source order), each projected to UJAHR, XGCSWGS84,
\* YGCSWGS84.
C1_OnlyPedestrianRows ==
    (pc = "loop" /\ results # <<>> /\ ParsedFile) =>
        LET out == results[Len(results)].value
            flagged == {k \in DOMAIN raw.rows :
                           raw.rows[k][Col(raw, cIstFuss)] = Num(<<"1">>)}
            Img(r) == <<r[Col(raw, cUJAHR)], r[Col(raw, cX)], r[Col(raw, cY)]>>
        IN  /\ ~out.none
            /\ out.columns = <<cUJAHR, cX, cY>>
            /\ IsSelection(out.rows, raw.rows, flagged, Img)

\* a file with a flagged row between rows of other flag values was filtered
C1_Witness ==
    /\ pc = "loop" /\ results # <<>> /\ ParsedFile
    /\ Len(raw.rows) = 2
    /\ raw.rows[1][Col(raw, cIstFuss)] = Num(<<"2">>)
    /\ raw.rows[2][Col(raw, cIstFuss)] = Num(<<"1">>)
    /\ Len(results[1].value.rows) = 1

\* rows process_file returned for entry k (None and no rows count 0)
RowsOf(k) == IF results[k].value.none THEN <<>> ELSE results[k].value.rows

RECURSIVE RowsBefore(_)
RowsBefore(k) == IF k <= 1 THEN 0 ELSE RowsBefore(k - 1) + Len(RowsOf(k - 1))

Combined == pc \in {"save", "done"}

\* C2: the number of rows of the frame process_all_files returns, and of the
\* CSV save_output writes, is the sum over the selected files of the number
\* of rows process_file returned (None and empty count 0).
C2_RowCountIsSum ==
    /\ Combined =>
          /\ Len(results) = Len(input_files)
          /\ Len(combined_df.rows) = RowsBefore(Len(results) + 1)
    /\ pc = "done" => Len(DataRecords(csv)) = RowsBefore(Len(results) + 1)

\* a file with two rows selected for two years and a failing file were
\* combined and saved
C2_Witness ==
    /\ pc = "done"
    /\ Len(results) = 3
    /\ Len(RowsOf(1)) = 2
    /\ Len(RowsOf(2)) = 2
    /\ results[3].value.none
    /\ Len(combined_df.rows) = 4

\* C3: the combined dataset is the concatenation of the per-file results in
\* year iteration order: the rows of the file selected for an earlier year
\* precede those of a later year, rows of one file keep their order, and no
\* row is dropped as a duplicate.
C3_ConcatInYearOrder ==
    Combined =>
        /\ \A a, b \in DOMAIN selected_for : a < b => selected_for[a] < selected_for[b]
        /\ Len(combined_df.rows) = RowsBefore(Len(results) + 1)
        /\ \A k \in DOMAIN results : \A n \in DOMAIN RowsOf(k) :
               combined_df.rows[RowsBefore(k) + n] = RowsOf(k)[n]

\* the same file was selected for two years and a different file for a
\* later year: its rows appear twice, before the later file's different rows
C3_Witness ==
    /\ pc = "done"
    /\ Len(results) = 3
    /\ input_files[1] = input_files[2]
    /\ Len(RowsOf(1)) = 2
    /\ RowsOf(1)[1] # RowsOf(1)[2]
    /\ RowsOf(3) # <<>>
    /\ RowsOf(3)[1] # RowsOf(1)[1]

Count(sq, P(_)) == Cardinality({k \in DOMAIN sq : P(sq[k])})

\* C4: a missing year or a failing file is never fatal: no exception leaves
\* run(): the run is always at one of its steps (the selection, the loop with
\* files left or not, the save, the end), process_file returns for whatever
\* the next file holds, every selected file is processed, the CSV is written
\* and its path returned; each missing year is logged as a warning and each
\* failing file as an error, its result None.
C4_FailuresAreNotFatal ==
    /\ pc # "crashed"
    /\ exc = ""
    /\ pc \in {"run", "loop", "save", "done"}
    /\ Len(results) <= Len(input_files)
    /\ (pc = "loop" /\ Len(results) < Len(input_files)) =>
          LET name == input_files[Len(results) + 1]
          IN  \A file \in (IF name \in DOMAIN fs THEN {fs[name]} ELSE RunFiles) :
                  ~process_file(name, file).raised
    /\ pc # "run" =>
          Count(log, LAMBDA e : e.level = "WARNING" /\ e.what = "no file for year")
              = Len(years_to_process) - Len(input_files)
    /\ Count(log, LAMBDA e : e.level = "ERROR")
          = Count(results, LAMBDA r : r.value.none)
    /\ \A k \in DOMAIN results :
          (~fs[input_files[k]].readable
              \/ ~HasColumns(fs[input_files[k]], {cIstFuss, cUJAHR, cX, cY}))
          => results[k].value.none
    /\ pc = "done" =>
          /\ Len(results) = Len(input_files)
          /\ csv = to_csv(combined_df)
          /\ retval = OutputPath

\* a run with missing years and an unreadable file went on to the next file
\* and saved its rows
C4_Witness ==
    /\ pc = "done"
    /\ Len(results) = 3
    /\ ~fs[input_files[1]].readable
    /\ fs[input_files[1]] # fs[input_files[3]]
    /\ Len(RowsOf(3)) = 2
    /\ csv # Absent

HeaderOnly == cUJAHR \o <<",">> \o cX \o <<",">> \o cY \o <<"\n">>

\* C5: when no selected file yields data, process_all_files returns an empty
\* frame with exactly the columns UJAHR, XGCSWGS84, YGCSWGS84 and run()
\* writes a file holding the header row only.
C5_EmptyResultIsShaped ==
    (Combined /\ \A k \in DOMAIN results : RowsOf(k) = <<>>) =>
        /\ combined_df = DataFrame(<<cUJAHR, cX, cY>>, <<>>)
        /\ pc = "done" => csv = HeaderOnly

\* a failing file and a file without pedestrian rows: nothing to combine
C5_Witness ==
    /\ pc = "done"
    /\ Len(results) = 2
    /\ results[1].value.none
    /\ ~results[2].value.none
    /\ Len(fs[input_files[2]].rows) = 2
    /\ RowsOf(2) = <<>>

\* C10: get_input_files returns at most one file per target year, in
\* ascending year order, and process_file determines a year for each, never
\* later than the year the file was selected for.
C10_YearAlwaysDetermined ==
    /\ Len(input_files) <= Len(years_to_process)
    /\ Len(selected_for) = Len(input_files)
    /\ \A a, b \in DOMAIN selected_for : a < b => selected_for[a] < selected_for[b]
    /\ \A k \in DOMAIN selected_for :
          /\ selected_for[k] \in Range(years_to_process)
          /\ IsSubstr(Str(selected_for[k]), input_files[k])
    /\ \A k \in DOMAIN results :
          /\ results[k].year \in Range(years_to_process)
          /\ results[k].year <= selected_for[k]
    /\ \A k \in DOMAIN log : log[k].what # "no year"

\* a file naming two years was processed for the later one
C10_Witness ==
    /\ Len(results) = 2
    /\ input_files[1] # input_files[2]
    /\ results[2].year < selected_for[2]

\* main() has loaded the combined CSV
Loaded == ~raw.none

\* C6: writing a combined dataset with save_output and re-reading it with
\* load_data yields the same column names in the same order and the same
\* number of rows, also with decimal commas in the coordinates and for the
\* empty dataset; the re-read never fails.
C6_RoundTrip ==
    /\ exc # "ParserError"
    /\ pc = "loaded" => Loaded
    /\ Loaded =>
          /\ csv = to_csv(combined_df)
          /\ raw.columns = combined_df.columns
          /\ raw.columns = <<cUJAHR, cX, cY>>
          /\ Len(raw.rows) = Len(combined_df.rows)

\* a dataset with a decimal-comma coordinate and a coordinate holding a
\* quote, a line break and a comma was written and re-read
C6_Witness ==
    /\ Loaded
    /\ Len(combined_df.rows) = 2
    /\ combined_df.rows[1][2] = StrCell(T13c4)
    /\ combined_df.rows[2][2] = StrCell(tSpecial)

\* the coordinate texts that are numbers once commas are dots, with the
\* number each denotes; the other texts of the model are not numbers
NumberOf(text) ==
    CASE text = T13c4 -> <<"1", "3", ".", "4">>
      [] text = <<"1", "3", ".", "4">> -> <<"1", "3", ".", "4">>
      [] text = T9d5 -> T9d5
      [] text = T52c5 -> <<"5", "2", ".", "5">>
      [] text = <<"5", "2", ".", "5">> -> <<"5", "2", ".", "5">>
      [] text = tInf -> tInf
      [] text = <<"-">> \o tInf -> <<"-">> \o tInf
      [] OTHER -> <<>>

NotNumbers == {<<"x">>, tSpecial}

Parses(cell) == cell.t # "nan" /\ NumberOf(cell.s) # <<>>

\* C7: process_data keeps a row iff both coordinates parse as a number after
\* every comma is replaced by a dot ("52,5" becomes 52.5); rows with an
\* unparseable or missing coordinate are absent, the others present, in
\* their order.
C7_KeepsParseableRows ==
    (pc = "processed") =>
        LET both == {k \in DOMAIN raw.rows : Parses(raw.rows[k][2]) /\ Parses(raw.rows[k][3])}
            Img(r) == <<r[1], Num(NumberOf(r[2].s)), Num(NumberOf(r[3].s))>>
        IN  /\ \A k \in DOMAIN raw.rows : \A j \in {2, 3} :
                   Parses(raw.rows[k][j]) \/ raw.rows[k][j].t = "nan"
                       \/ raw.rows[k][j].s \in NotNumbers
            /\ df.columns = <<cUJAHR, cLongitude, cLatitude>>
            /\ IsSelection(df.rows, raw.rows, both, Img)

\* a row with a bad latitude was dropped, a decimal-comma row after it kept
C7_Witness ==
    /\ pc = "processed"
    /\ Len(raw.rows) = 2
    /\ Parses(raw.rows[1][2]) /\ ~Parses(raw.rows[1][3])
    /\ raw.rows[2][2] = StrCell(T13c4)
    /\ Len(df.rows) = 1
    /\ df.rows[1][2] = Num(<<"1", "3", ".", "4">>)

\* main() holds the frame process_data returned
Processed == ~df.none /\ HasColumns(df, {cLongitude, cLatitude})

\* C8: when no row survives process_data, main raises its ValueError;
\* create_heatmap is not invoked and no HTML file is written.
C8_EmptyRaises ==
    /\ (Processed /\ df.rows = <<>> /\ pc # "processed") =>
          /\ pc = "failed"
          /\ exc = "ValueError: No valid data rows"
          /\ html = "none"
    /\ pc \in {"heatmap", "main_done"} => df.rows # <<>>

\* a CSV with rows, none with two parseable coordinates, ended in the error
C8_Witness ==
    /\ pc = "failed"
    /\ Len(raw.rows) = 2
    /\ Processed
    /\ df.rows = <<>>
    /\ exc = "ValueError: No valid data rows"

\* the mean of the column is defined: it has a value and not both inf and -inf
Defined(cells) ==
    /\ cells # <<>>
    /\ ~(Num(tInf) \in Range(cells) /\ Num(<<"-">> \o tInf) \in Range(cells))

\* C9: the HTML map is written only after every validation passed: the CSV
\* existed (else FileNotFoundError before any load), a row survived
\* process_data, and both means are defined (else ValueError before saving).
C9_SavedOnlyWhenValid ==
    /\ html = "saved" =>
          /\ csv # Absent
          /\ exc = ""
          /\ Processed
          /\ df.rows # <<>>
          /\ Defined(Column(df, cLatitude))
          /\ Defined(Column(df, cLongitude))
    /\ exc = "FileNotFoundError" => csv = Absent /\ ~Loaded /\ html = "none"
    /\ exc # "" => html = "none"
    /\ (pc = "failed" /\ Processed /\ df.rows # <<>>) =>
          ~(Defined(Column(df, cLatitude)) /\ Defined(Column(df, cLongitude)))

\* the map was saved for a CSV of which one row was dropped
C9_Witness ==
    /\ html = "saved"
    /\ Len(raw.rows) = 2
    /\ Len(df.rows) = 1

====
